---- MODULE Spec2Model ----
(***************************************************************************)
(* Verification harness of ECASLab/cgra-adders: the cocotb test            *)
(* test_adder_basic (drive, wait, check, sample, report), its reference    *)
(* model, the stimulus generator AdderSequence, the assertion helpers and  *)
(* the coverage collector AdderCoverage (sample, save, load, merge,        *)
(* report).                                                                *)
(*                                                                         *)
(* Specifications:                                                         *)
(*   Spec        one run of test_adder_basic against a black-box DUT       *)
(*   LiveSpec    the same run, resumed by the simulator until it ends      *)
(*   RefSpec     the reference model applied to bounded operands           *)
(*   CovSpec     sample / merge / report calls on three collectors         *)
(*   PersistSpec sample / merge / save / load on two collectors and a file *)
(***************************************************************************)
EXTENDS Integers, Sequences, FiniteSets, TLC

VARIABLES
    \* ---- test_adder_basic (one coroutine) ----
    pc,          \* position of the coroutine
    N,           \* dut.N.value
    num_arg,     \* argument given to generate_vectors: [given, value]
    max_val,     \* local of generate_vectors
    vectors,     \* list built and returned by generate_vectors
    idx,         \* 1-based position of the for loop in vectors (0: not started)
    dut,         \* signal name -> value held by the simulated circuit
    ports,       \* CONFIG["ports"]: logical role -> signal name
    access,      \* the last access to a port signal: [kind, role, name]
    now,         \* simulated time, in ns
    mask,        \* local of the test: (1 << N) - 1
    coverage,    \* coverage.covered of the test's AdderCoverage
    error,       \* the exception that ended the run, kind "none" while running
    stdout,      \* lines printed by report(): the counts, in order
    \* ---- reference model on its own ----
    ref_in,      \* [N, a, b, c_in]
    ref_out,     \* [done, sum, c_out]
    \* ---- AdderCoverage objects ----
    cov,         \* collector name -> its covered set
    calls,       \* history of the calls made in CovSpec
    file,        \* the one path used by save/load: [exists, denied, text]
    file_from,   \* what wrote the file last: [saved, set]
    last         \* outcome of the last save/load call

harnessVars == <<pc, N, ports, access, num_arg, max_val, vectors, idx, dut,
                 now, mask, coverage, error>>
refVars     == <<ref_in, ref_out>>
covVars     == <<cov, calls, file, file_from, last>>
vars        == <<harnessVars, stdout, refVars, covVars>>

----------------------------------------------------------------------------
(* Bounds of the model *)

\* largest adder width of a modelled test run
MaxWidth == 1
\* largest num_vectors given to generate_vectors
MaxVectors == 2
\* largest width the reference model is applied to on its own
MaxRefWidth == 4

----------------------------------------------------------------------------
(* Python integer operators, computed bit by bit as the interpreter does *)

RECURSIVE Pow2(_)
Pow2(n) == IF n <= 0 THEN 1 ELSE 2 * Pow2(n - 1)

\* x << n, for n >= 0 (a negative n raises ValueError: see the callers)
ShiftLeft(x, n) == x * Pow2(n)

\* x >> n, for x >= 0 and n >= 0: n halvings
RECURSIVE ShiftRight(_, _)
ShiftRight(x, n) == IF n <= 0 THEN x ELSE ShiftRight(x \div 2, n - 1)

\* x & y, for x, y >= 0
RECURSIVE BitAnd(_, _)
BitAnd(x, y) ==
    IF x = 0 \/ y = 0 THEN 0
    ELSE (x % 2) * (y % 2) + 2 * BitAnd(x \div 2, y \div 2)

----------------------------------------------------------------------------
(* The reference model of the test *)

\* mask = (1 << N) - 1
Mask_NoMinusOne(n) == ShiftLeft(1, n)
Mask(n) == ShiftLeft(1, n) - 1

\* total = a + b + c_in
Total(a, b, c_in) == a + b + c_in

\* expected_sum = total & mask
ExpectedSum(total, m) == BitAnd(total, m)

\* expected_c_out = total >> N
ExpectedCOut(total, n) == ShiftRight(total, n)

----------------------------------------------------------------------------
(* Idle values of the variable groups a specification does not use *)

NoError == [kind |-> "none", got |-> 0, expected |-> 0]

NoAccess == [kind |-> "none", role |-> "a", name |-> "a"]

\* CONFIG["ports"] of the three adders: logical role -> DUT port name
CONFIG_ports ==
    [a |-> "a", b |-> "b", c_in |-> "c_in", sum |-> "sum", c_out |-> "c_out"]

HarnessIdle ==
    /\ pc = "idle"
    /\ N = 1
    /\ num_arg = [given |-> FALSE, value |-> 0]
    /\ max_val = 0
    /\ vectors = <<>>
    /\ idx = 0
    /\ dut = [s \in {"a", "b", "c_in", "sum", "c_out"} |-> 0]
    /\ ports = CONFIG_ports
    /\ access = NoAccess
    /\ now = 0
    /\ mask = 0
    /\ coverage = {}
    /\ error = NoError

RefIdle ==
    /\ ref_in = [N |-> 1, a |-> 0, b |-> 0, c_in |-> 0]
    /\ ref_out = [done |-> FALSE, sum |-> 0, c_out |-> 0]

----------------------------------------------------------------------------
(* RefSpec: the reference model applied to every operand of a width *)

RefInit ==
    /\ \E n \in 1..MaxRefWidth :
       \E a \in 0..(Pow2(n) - 1), b \in 0..(Pow2(n) - 1), c \in 0..1 :
           ref_in = [N |-> n, a |-> a, b |-> b, c_in |-> c]
    /\ ref_out = [done |-> FALSE, sum |-> 0, c_out |-> 0]

\* lines 74, 86-88 of the test
Expect ==
    /\ ~ref_out.done
    /\ LET total == Total(ref_in.a, ref_in.b, ref_in.c_in)
       IN  ref_out' = [done  |-> TRUE,
                       sum   |-> ExpectedSum(total, Mask(ref_in.N)),
                       c_out |-> ExpectedCOut(total, ref_in.N)]
    /\ UNCHANGED <<ref_in, harnessVars, stdout, covVars>>

----------------------------------------------------------------------------
(* AdderCoverage: the operations on one covered set *)

\* key = (a, b, cin); self.covered.add(key)
CovSample_Bag(covered, a, b, cin) ==
    IF <<a, b, cin>> \in covered
    THEN covered \cup {<<a, b, cin, Cardinality(covered)>>}
    ELSE covered \cup {<<a, b, cin>>}
CovSample(covered, a, b, cin) == covered \cup {<<a, b, cin>>}

\* self.covered.update(other_coverage.covered): the receiver's new set
CovMerge_Replace(covered, other) == other
CovMerge(covered, other) == covered \cup other

\* the number printed by report(): len(self.covered)
CovReportCount(covered) == Cardinality(covered)

----------------------------------------------------------------------------
(* Spec: one run of test_adder_basic *)

\* the logical roles of the port mapping
Roles == {"a", "b", "c_in", "sum", "c_out"}

\* mappings for DUTs whose ports are named otherwise
RenamedInputs ==
    [a |-> "x", b |-> "y", c_in |-> "ci", sum |-> "sum", c_out |-> "c_out"]
RenamedOutputs ==
    [a |-> "a", b |-> "b", c_in |-> "c_in", sum |-> "s", c_out |-> "co"]

\* the mappings a run may be configured with
PortMappings == {CONFIG_ports, RenamedInputs, RenamedOutputs}

\* the signals of a DUT described by a mapping
Signals(m) == {m[r] : r \in Roles}

\* Timer(1, units="ns")
SettleNs == 1

\* default of generate_vectors' num_vectors
DefaultNumVectors == 1

NumVectors == IF num_arg.given THEN num_arg.value ELSE DefaultNumVectors

\* widths a run may be given: the positive ones, and 0 and -1, which the
\* harness does not screen
HarnessWidths == (0 - 1) .. MaxWidth

\* The test itself calls generate_vectors() with no argument; the loop over
\* the returned list does not depend on its length, so the model also lets
\* the call name a count, to exercise the loop on several vectors.
HarnessInit ==
    /\ pc = "start"
    /\ N \in HarnessWidths
    /\ num_arg \in {[given |-> FALSE, value |-> 0]}
                   \cup {[given |-> TRUE, value |-> k] : k \in 0..MaxVectors}
    /\ max_val = 0
    /\ vectors = <<>>
    /\ idx = 0
    /\ ports \in PortMappings
    /\ dut = [s \in Signals(ports) |-> 0]
    /\ access = NoAccess
    /\ now = 0
    /\ mask = 0
    /\ coverage = {}
    /\ error = NoError

\* the locals a, b, c_in of the loop body
CurA   == vectors[idx][1]
CurB   == vectors[idx][2]
CurCIn == vectors[idx][3]

\* the locals expected_sum, expected_c_out of the loop body
CurExpectedSum  == ExpectedSum(Total(CurA, CurB, CurCIn), mask)
CurExpectedCOut == ExpectedCOut(Total(CurA, CurB, CurCIn), N)

\* lines 67-74: read N and the ports, build the sequence and the collector,
\* compute the mask; 1 << N raises ValueError for a negative N
Start ==
    /\ pc = "start"
    /\ IF N < 0
       THEN /\ pc' = "failed"
            /\ error' = [kind |-> "ValueError", got |-> N, expected |-> 0]
            /\ UNCHANGED <<mask, coverage>>
       ELSE /\ pc' = "gen_enter"
            /\ mask' = Mask(N)
            /\ coverage' = {}
            /\ UNCHANGED error
    /\ UNCHANGED <<N, ports, access, num_arg, max_val, vectors, idx, dut, now,
                   stdout, refVars, covVars>>

\* generate_vectors, lines 64-65
GenEnter ==
    /\ pc = "gen_enter"
    /\ IF N < 0
       THEN /\ pc' = "failed"
            /\ error' = [kind |-> "ValueError", got |-> N, expected |-> 0]
            /\ UNCHANGED <<max_val, vectors>>
       ELSE /\ pc' = "gen_loop"
            /\ max_val' = ShiftLeft(1, N) - 1
            /\ vectors' = <<>>
            /\ UNCHANGED error
    /\ UNCHANGED <<N, ports, access, num_arg, idx, dut, now, mask, coverage,
                   stdout, refVars, covVars>>

\* generate_vectors, lines 67-71: one iteration of range(num_vectors)
GenLoop_ExtraVector ==
    /\ pc = "gen_loop"
    /\ Len(vectors) <= NumVectors
    /\ \E a \in 0..max_val, b \in 0..max_val, c \in 0..1 :
           vectors' = Append(vectors, <<a, b, c>>)
    /\ pc' = IF Len(vectors) = NumVectors THEN "for" ELSE pc
    /\ UNCHANGED <<N, ports, access, num_arg, max_val, idx, dut, now, mask,
                   coverage, error, stdout, refVars, covVars>>
GenLoop ==
    /\ pc = "gen_loop"
    /\ Len(vectors) < NumVectors
    /\ \E a \in 0..max_val, b \in 0..max_val, c \in 0..1 :
           vectors' = Append(vectors, <<a, b, c>>)
    /\ UNCHANGED <<pc, N, ports, access, num_arg, max_val, idx, dut, now,
                   mask, coverage, error, stdout, refVars, covVars>>

\* generate_vectors, line 73
GenReturn ==
    /\ pc = "gen_loop"
    /\ Len(vectors) >= NumVectors
    /\ pc' = "for"
    /\ UNCHANGED <<N, ports, access, num_arg, max_val, vectors, idx, dut, now,
                   mask, coverage, error, stdout, refVars, covVars>>

\* line 76: the for statement takes the next vector, or ends the loop
ForNext_SkipOne ==
    /\ pc = "for"
    /\ IF idx + 1 < Len(vectors)
       THEN idx' = idx + 2 /\ pc' = "drive_a"
       ELSE IF idx < Len(vectors)
            THEN idx' = idx + 1 /\ pc' = "drive_a"
            ELSE idx' = idx /\ pc' = "report"
    /\ UNCHANGED <<N, ports, access, num_arg, max_val, vectors, dut, now,
                   mask, coverage, error, stdout, refVars, covVars>>
ForNext ==
    /\ pc = "for"
    /\ IF idx < Len(vectors)
       THEN idx' = idx + 1 /\ pc' = "drive_a"
       ELSE idx' = idx /\ pc' = "report"
    /\ UNCHANGED <<N, ports, access, num_arg, max_val, vectors, dut, now,
                   mask, coverage, error, stdout, refVars, covVars>>

\* line 78
DriveA ==
    /\ pc = "drive_a"
    /\ dut' = [dut EXCEPT ![ports["a"]] = CurA]
    /\ access' = [kind |-> "write", role |-> "a", name |-> ports["a"]]
    /\ pc' = "drive_b"
    /\ UNCHANGED <<N, ports, num_arg, max_val, vectors, idx, now, mask,
                   coverage, error, stdout, refVars, covVars>>

\* line 79
DriveB_Suspends ==
    /\ pc = "drive_b"
    /\ dut' = [dut EXCEPT ![ports["b"]] = CurB]
    /\ access' = [kind |-> "write", role |-> "b", name |-> ports["b"]]
    /\ now' = now + SettleNs
    /\ pc' = "drive_c_in"
    /\ UNCHANGED <<N, ports, num_arg, max_val, vectors, idx, mask, coverage,
                   error, stdout, refVars, covVars>>
DriveB ==
    /\ pc = "drive_b"
    /\ dut' = [dut EXCEPT ![ports["b"]] = CurB]
    /\ access' = [kind |-> "write", role |-> "b", name |-> ports["b"]]
    /\ pc' = "drive_c_in"
    /\ UNCHANGED <<N, ports, num_arg, max_val, vectors, idx, now, mask,
                   coverage, error, stdout, refVars, covVars>>

\* line 80
DriveCIn ==
    /\ pc = "drive_c_in"
    /\ dut' = [dut EXCEPT ![ports["c_in"]] = CurCIn]
    /\ access' = [kind |-> "write", role |-> "c_in", name |-> ports["c_in"]]
    /\ pc' = "wait"
    /\ UNCHANGED <<N, ports, num_arg, max_val, vectors, idx, now, mask,
                   coverage, error, stdout, refVars, covVars>>

\* line 83: the simulator advances 1 ns; the circuit, a black box that may be
\* faulty, settles its outputs to some values of their widths
WaitSettle ==
    /\ pc = "wait"
    /\ now' = now + SettleNs
    /\ \E s \in 0..(Pow2(N) - 1), c \in 0..1 :
           dut' = [dut EXCEPT ![ports["sum"]] = s, ![ports["c_out"]] = c]
    /\ pc' = "check_sum"
    /\ UNCHANGED <<N, ports, access, num_arg, max_val, vectors, idx, mask,
                   coverage, error, stdout, refVars, covVars>>

\* dut.<name> on a DUT that has no signal of that name
AttributeError == [kind |-> "AttributeError", got |-> 0, expected |-> 0]

\* lines 86-90 and assert_adder_sum (30-33): the reference model, then the
\* helper reads dut.sum and compares
CheckSum_Lenient ==
    /\ pc = "check_sum"
    /\ access' = [kind |-> "read", role |-> "sum", name |-> "sum"]
    /\ IF "sum" \notin DOMAIN dut
       THEN /\ pc' = "failed"
            /\ error' = AttributeError
       ELSE LET sum_val == dut["sum"]
            IN  IF sum_val = CurExpectedSum
                THEN pc' = "check_c_out" /\ UNCHANGED error
                ELSE pc' = "check_c_out" /\ UNCHANGED error  \* no assert
    /\ UNCHANGED <<N, ports, num_arg, max_val, vectors, idx, dut, now, mask,
                   coverage, stdout, refVars, covVars>>
CheckSum_Accumulate ==
    /\ pc = "check_sum"
    /\ access' = [kind |-> "read", role |-> "sum", name |-> "sum"]
    /\ IF "sum" \notin DOMAIN dut
       THEN /\ pc' = "failed"
            /\ error' = AttributeError
       ELSE LET sum_val == dut["sum"]
            IN  IF sum_val = CurExpectedSum
                THEN pc' = "check_c_out" /\ UNCHANGED error
                ELSE /\ pc' = "check_c_out"
                     /\ error' = [kind |-> "Sum mismatch", got |-> sum_val,
                                  expected |-> CurExpectedSum]
    /\ UNCHANGED <<N, ports, num_arg, max_val, vectors, idx, dut, now, mask,
                   coverage, stdout, refVars, covVars>>
CheckSum ==
    /\ pc = "check_sum"
    /\ access' = [kind |-> "read", role |-> "sum", name |-> "sum"]
    /\ IF "sum" \notin DOMAIN dut
       THEN /\ pc' = "failed"
            /\ error' = AttributeError
       ELSE LET sum_val == dut["sum"]
            IN  IF sum_val = CurExpectedSum
                THEN pc' = "check_c_out" /\ UNCHANGED error
                ELSE /\ pc' = "failed"
                     /\ error' = [kind |-> "Sum mismatch", got |-> sum_val,
                                  expected |-> CurExpectedSum]
    /\ UNCHANGED <<N, ports, num_arg, max_val, vectors, idx, dut, now, mask,
                   coverage, stdout, refVars, covVars>>

\* line 91 and assert_adder_c_out (52-55)
CheckCOut_RecordAndGoOn ==
    /\ pc = "check_c_out"
    /\ access' = [kind |-> "read", role |-> "c_out", name |-> "c_out"]
    /\ IF "c_out" \notin DOMAIN dut
       THEN /\ pc' = "failed"
            /\ error' = AttributeError
       ELSE LET c_out_val == dut["c_out"]
            IN  IF c_out_val = CurExpectedCOut
                THEN pc' = "sample" /\ UNCHANGED error
                ELSE /\ pc' = "sample"
                     /\ error' = [kind |-> "C_out mismatch", got |-> c_out_val,
                                  expected |-> CurExpectedCOut]
    /\ UNCHANGED <<N, ports, num_arg, max_val, vectors, idx, dut, now, mask,
                   coverage, stdout, refVars, covVars>>
CheckCOut ==
    /\ pc = "check_c_out"
    /\ access' = [kind |-> "read", role |-> "c_out", name |-> "c_out"]
    /\ IF "c_out" \notin DOMAIN dut
       THEN /\ pc' = "failed"
            /\ error' = AttributeError
       ELSE LET c_out_val == dut["c_out"]
            IN  IF c_out_val = CurExpectedCOut
                THEN pc' = "sample" /\ UNCHANGED error
                ELSE /\ pc' = "failed"
                     /\ error' = [kind |-> "C_out mismatch", got |-> c_out_val,
                                  expected |-> CurExpectedCOut]
    /\ UNCHANGED <<N, ports, num_arg, max_val, vectors, idx, dut, now, mask,
                   coverage, stdout, refVars, covVars>>

\* line 95
Sample_Forget ==
    /\ pc = "sample"
    /\ coverage' = IF CurCIn = 1 THEN coverage
                   ELSE CovSample(coverage, CurA, CurB, CurCIn)
    /\ pc' = "for"
    /\ UNCHANGED <<N, ports, access, num_arg, max_val, vectors, idx, dut, now,
                   mask, error, stdout, refVars, covVars>>
Sample ==
    /\ pc = "sample"
    /\ coverage' = CovSample(coverage, CurA, CurB, CurCIn)
    /\ pc' = "for"
    /\ UNCHANGED <<N, ports, access, num_arg, max_val, vectors, idx, dut, now,
                   mask, error, stdout, refVars, covVars>>

\* line 98
Report ==
    /\ pc = "report"
    /\ stdout' = Append(stdout, CovReportCount(coverage))
    /\ pc' = "done"
    /\ UNCHANGED <<N, ports, access, num_arg, max_val, vectors, idx, dut, now,
                   mask, coverage, error, refVars, covVars>>

----------------------------------------------------------------------------
(* JSON text, as json.dump writes it and json.load reads it.  A text is a   *)
(* sequence of one-character strings.  The modelled subset of JSON is:      *)
(* arrays, integers and white space; files are drawn from that subset.      *)

Digits == <<"0", "1", "2", "3", "4", "5", "6", "7", "8", "9">>

IsDigit(c) == \E i \in 1..Len(Digits) : Digits[i] = c

DigitVal(c) == (CHOOSE i \in 1..Len(Digits) : Digits[i] = c) - 1

\* int.__repr__ of a natural number
RECURSIVE NatText(_)
NatText(n) ==
    IF n < Len(Digits) THEN <<Digits[n + 1]>>
    ELSE NatText(n \div Len(Digits)) \o <<Digits[(n % Len(Digits)) + 1]>>

\* int.__repr__
IntText(n) == IF n < 0 THEN <<"-">> \o NatText(0 - n) ELSE NatText(n)

\* the items of a Python list or tuple of ints, joined by ", "
RECURSIVE JoinInts(_, _)
JoinInts(t, i) ==
    IF i > Len(t) THEN <<>>
    ELSE IF i = Len(t) THEN IntText(t[i])
    ELSE IntText(t[i]) \o <<",", " ">> \o JoinInts(t, i + 1)

\* json.dump of one tuple of ints: a JSON array
DumpTuple(t) == <<"[">> \o JoinInts(t, 1) \o <<"]">>

RECURSIVE JoinTuples(_, _)
JoinTuples(l, i) ==
    IF i > Len(l) THEN <<>>
    ELSE IF i = Len(l) THEN DumpTuple(l[i])
    ELSE DumpTuple(l[i]) \o <<",", " ">> \o JoinTuples(l, i + 1)

\* json.dump(data, f) for data a list of tuples of ints
JsonDump(l) == <<"[">> \o JoinTuples(l, 1) \o <<"]">>

\* parsed JSON values
JInt(n)     == [k |-> "int", n |-> n, items |-> <<>>]
JArr(items) == [k |-> "arr", n |-> 0, items |-> items]

ParseFail == [ok |-> FALSE, val |-> JInt(0), pos |-> 0]

JsonWhitespace == {" ", "\n", "\t", "\r"}

RECURSIVE SkipWs(_, _)
SkipWs(s, i) ==
    IF i <= Len(s) /\ s[i] \in JsonWhitespace THEN SkipWs(s, i + 1) ELSE i

RECURSIVE ScanDigits(_, _, _)
ScanDigits(s, i, acc) ==
    IF i <= Len(s) /\ IsDigit(s[i])
    THEN ScanDigits(s, i + 1, acc * Len(Digits) + DigitVal(s[i]))
    ELSE [val |-> acc, pos |-> i]

\* an integer: -?(0|[1-9][0-9]*)
ParseNumber(s, i) ==
    LET neg == i <= Len(s) /\ s[i] = "-"
        j   == IF neg THEN i + 1 ELSE i
    IN  IF j > Len(s) \/ ~IsDigit(s[j]) THEN ParseFail
        ELSE IF s[j] = "0"
        THEN [ok |-> TRUE, val |-> JInt(0), pos |-> j + 1]
        ELSE LET r == ScanDigits(s, j, 0)
             IN  [ok |-> TRUE,
                  val |-> JInt(IF neg THEN 0 - r.val ELSE r.val),
                  pos |-> r.pos]

RECURSIVE ParseValue(_, _)
RECURSIVE ParseElems(_, _, _)

\* the rest of an array whose first items are acc; i is at an item
ParseElems(s, i, acc) ==
    LET v == ParseValue(s, i)
        j == SkipWs(s, v.pos)
    IN  IF ~v.ok THEN ParseFail
        ELSE IF j > Len(s) THEN ParseFail
        ELSE IF s[j] = ","
        THEN ParseElems(s, SkipWs(s, j + 1), Append(acc, v.val))
        ELSE IF s[j] = "]"
        THEN [ok |-> TRUE, val |-> JArr(Append(acc, v.val)), pos |-> j + 1]
        ELSE ParseFail

\* one value starting at i (white space already skipped)
ParseValue(s, i) ==
    IF i > Len(s) THEN ParseFail
    ELSE IF s[i] = "["
    THEN LET j == SkipWs(s, i + 1)
         IN  IF j <= Len(s) /\ s[j] = "]"
             THEN [ok |-> TRUE, val |-> JArr(<<>>), pos |-> j + 1]
             ELSE ParseElems(s, j, <<>>)
    ELSE ParseNumber(s, i)

\* json.load: one value, white space around it, nothing after it
JsonLoads(s) ==
    LET v == ParseValue(s, SkipWs(s, 1))
    IN  IF ~v.ok THEN ParseFail
        ELSE IF SkipWs(s, v.pos) <= Len(s) THEN ParseFail
        ELSE v

----------------------------------------------------------------------------
(* AdderCoverage.save and AdderCoverage.load *)

\* list(self.covered): the elements in the set's iteration order, any order
ListsOf(covered) ==
    {l \in [1..Cardinality(covered) -> covered] :
        \A i, j \in 1..Cardinality(covered) : l[i] = l[j] => i = j}

\* set(tuple(x) for x in items): tuple(x) raises TypeError for an int x,
\* hashing the tuple raises TypeError when it holds a list; acc is the set
\* built so far
RECURSIVE BuildSet(_, _, _)
BuildSet(items, i, acc) ==
    IF i > Len(items) THEN [err |-> "none", set |-> acc]
    ELSE LET x == items[i]
         IN  IF x.k # "arr" THEN [err |-> "TypeError", set |-> acc]
             ELSE IF \E j \in 1..Len(x.items) : x.items[j].k # "int"
             THEN [err |-> "TypeError", set |-> acc]
             ELSE BuildSet(items, i + 1,
                           acc \cup {[j \in 1..Len(x.items) |-> x.items[j].n]})

\* what open, json.load and set(...) give for the file f
LoadOutcome(f) ==
    IF ~f.exists THEN [err |-> "FileNotFoundError", set |-> {}]
    ELSE IF f.denied THEN [err |-> "PermissionError", set |-> {}]
    ELSE LET p == JsonLoads(f.text)
         IN  IF ~p.ok THEN [err |-> "JSONDecodeError", set |-> {}]
             ELSE IF p.val.k # "arr" THEN [err |-> "TypeError", set |-> {}]
             ELSE BuildSet(p.val.items, 1, {})

\* self.covered after load: assigned only when the right-hand side was
\* evaluated without an exception
LoadCovered_Merging(f, before) ==
    IF LoadOutcome(f).err = "none" THEN before \cup LoadOutcome(f).set
    ELSE before
LoadCovered_InPlace(f, before) ==
    IF LoadOutcome(f).err \in {"none", "TypeError"} THEN LoadOutcome(f).set
    ELSE before
LoadCovered(f, before) ==
    IF LoadOutcome(f).err = "none" THEN LoadOutcome(f).set ELSE before

----------------------------------------------------------------------------
(* The collectors, the file, and the calls made on them *)

Trackers == {"A", "B", "C"}

\* the collectors save and load are called on
FileTrackers == {"A", "B"}

\* vectors given to sample
SampleVectors == {<<1, 2, 0>>, <<3, 4, 1>>}

\* vectors given to sample where a file is in play
FileVectors == {<<1, 2, 0>>, <<7, 12, 0>>}

\* largest number of sample calls, over all collectors
MaxSamples == 3
\* the same, where a file is in play
MaxFileSamples == 2
\* largest number of report calls
MaxReports == 1

NoFile   == [exists |-> FALSE, denied |-> FALSE, text |-> <<>>]
NoOrigin == [saved |-> FALSE, set |-> {}]
NoCall   == [op |-> "none", t |-> "A", u |-> "A", v |-> <<>>, err |-> "none"]
NoCalls  == [t \in Trackers |-> [samples |-> <<>>, only_samples |-> TRUE]]

CovIdle ==
    /\ cov = [t \in Trackers |-> {}]
    /\ calls = NoCalls
    /\ file = NoFile
    /\ file_from = NoOrigin
    /\ last = NoCall

RECURSIVE SumLen(_, _)
SumLen(f, S) ==
    IF S = {} THEN 0
    ELSE LET t == CHOOSE x \in S : TRUE
         IN  Len(f[t].samples) + SumLen(f, S \ {t})

TotalSamples == SumLen(calls, Trackers)

\* t.sample(a, b, cin)
SampleCall(t, v) ==
    /\ cov' = [cov EXCEPT ![t] = CovSample(@, v[1], v[2], v[3])]
    /\ calls' = [calls EXCEPT ![t].samples = Append(@, v)]
    /\ last' = [op |-> "sample", t |-> t, u |-> t, v |-> v, err |-> "none"]
    /\ UNCHANGED <<file, file_from, stdout, harnessVars, refVars>>

\* t.merge(u)
MergeCall(t, u) ==
    /\ cov' = [cov EXCEPT ![t] = CovMerge(cov[t], cov[u])]
    /\ calls' = [calls EXCEPT ![t].only_samples = FALSE]
    /\ last' = [op |-> "merge", t |-> t, u |-> u, v |-> <<>>, err |-> "none"]
    /\ UNCHANGED <<file, file_from, stdout, harnessVars, refVars>>

\* t.report()
ReportCall(t) ==
    /\ Len(stdout) < MaxReports
    /\ stdout' = Append(stdout, CovReportCount(cov[t]))
    /\ last' = [op |-> "report", t |-> t, u |-> t, v |-> <<>>, err |-> "none"]
    /\ UNCHANGED <<cov, calls, file, file_from, harnessVars, refVars>>

\* t.save(filename): open(filename, "w") raises PermissionError on a file
\* the process may not open; otherwise the file holds the dumped list
SaveCall(t) ==
    /\ IF file.exists /\ file.denied
       THEN /\ last' = [op |-> "save", t |-> t, u |-> t, v |-> <<>>,
                        err |-> "PermissionError"]
            /\ UNCHANGED <<file, file_from>>
       ELSE /\ \E data \in ListsOf(cov[t]) :
                  file' = [exists |-> TRUE, denied |-> FALSE,
                           text |-> JsonDump(data)]
            /\ file_from' = [saved |-> TRUE, set |-> cov[t]]
            /\ last' = [op |-> "save", t |-> t, u |-> t, v |-> <<>>,
                        err |-> "none"]
    /\ UNCHANGED <<cov, calls, stdout, harnessVars, refVars>>

\* t.load(filename)
LoadCall(t) ==
    /\ cov' = [cov EXCEPT ![t] = LoadCovered(file, cov[t])]
    /\ calls' = [calls EXCEPT ![t].only_samples = FALSE]
    /\ last' = [op |-> "load", t |-> t, u |-> t, v |-> <<>>,
                err |-> LoadOutcome(file).err]
    /\ UNCHANGED <<file, file_from, stdout, harnessVars, refVars>>

\* files found at the path before any save: written by someone else
ForeignTexts ==
    { <<>>,                                              \* empty file
      <<"7">>,                                           \* 7
      DumpTuple(<<1, 2, 0>>),                            \* [1, 2, 0]
      JsonDump(<< <<1, 2>> >>),                          \* [[1, 2]]
      JsonDump(<< <<1, 2, 5>> >>),                       \* [[1, 2, 5]]
      JsonDump(<< <<3, 4, 1>>, <<1, 2>> >>),             \* [[3, 4, 1], [1, 2]]
      <<"[">> \o DumpTuple(<<3, 4, 1>>) \o <<",", " ", "5", "]">>,
                                                         \* [[3, 4, 1], 5]
      <<"[", "[", "1", ",", " ", "[", "2", "]", ",", " ", "0", "]", "]">>,
                                                         \* [[1, [2], 0]]
      SubSeq(JsonDump(<< <<1, 2, 0>> >>), 1, 9),         \* [[1, 2, 0
      <<"[", "[", "-", "1", ",", "2", "0", ",", "1", "]", "]", "\n">>
                                                         \* [[-1,20,1]]\n
    }

InitialFiles ==
    {NoFile}
    \cup {[exists |-> TRUE, denied |-> TRUE, text |-> <<>>]}
    \cup {[exists |-> TRUE, denied |-> FALSE, text |-> x] : x \in ForeignTexts}

----------------------------------------------------------------------------
(* The specifications *)

Init == HarnessInit /\ stdout = <<>> /\ RefIdle /\ CovIdle

Next ==
    \/ Start
    \/ GenEnter
    \/ GenLoop
    \/ GenReturn
    \/ ForNext
    \/ DriveA
    \/ DriveB
    \/ DriveCIn
    \/ WaitSettle
    \/ CheckSum
    \/ CheckCOut
    \/ Sample
    \/ Report

Spec == Init /\ [][Next]_vars

\* The simulator resumes the coroutine whenever it can go on: it runs the
\* test from its first statement, and the Timer it awaits always fires,
\* simulated time having no other event to wait for.
LiveSpec == Spec /\ WF_vars(Next)

RefSpecInit == HarnessIdle /\ stdout = <<>> /\ RefInit /\ CovIdle

RefNext == Expect

RefSpec == RefSpecInit /\ [][RefNext]_vars


CovSpecInit == HarnessIdle /\ stdout = <<>> /\ RefIdle /\ CovIdle

CovNext ==
    \/ \E t \in Trackers, v \in SampleVectors :
          TotalSamples < MaxSamples /\ SampleCall(t, v)
    \/ \E t \in Trackers, u \in Trackers : MergeCall(t, u)
    \/ \E t \in Trackers : ReportCall(t)

CovSpec == CovSpecInit /\ [][CovNext]_vars

PersistInit ==
    /\ HarnessIdle /\ stdout = <<>> /\ RefIdle
    /\ cov = [t \in Trackers |-> {}]
    /\ calls = NoCalls
    /\ file \in InitialFiles
    /\ file_from = NoOrigin
    /\ last = NoCall

PersistNext ==
    \/ \E t \in FileTrackers, v \in FileVectors :
          TotalSamples < MaxFileSamples /\ SampleCall(t, v)
    \/ \E t \in FileTrackers : SaveCall(t)
    \/ \E t \in FileTrackers : LoadCall(t)

PersistSpec == PersistInit /\ [][PersistNext]_vars

----------------------------------------------------------------------------
(* Claims about the reference model and the test run *)

\* C1: for every width N > 0, operands a, b in [0, 2^N - 1] and c_in in
\* {0,1}, the reference model of the test yields
\* expected_sum = (a + b + c_in) mod 2^N and
\* expected_c_out = (a + b + c_in) div 2^N, and expected_c_out is 0 or 1.
C1_ReferenceModel ==
    ref_out.done =>
        LET t == ref_in.a + ref_in.b + ref_in.c_in
        IN  /\ ref_out.sum = t % (2 ^ ref_in.N)
            /\ ref_out.c_out = t \div (2 ^ ref_in.N)
            /\ ref_out.c_out \in {0, 1}

\* the scenario N = 4, (7, 12, 0): total 19, sum 3, carry 1
C1_Witness ==
    /\ ref_out.done
    /\ ref_in = [N |-> 4, a |-> 7, b |-> 12, c_in |-> 0]
    /\ ref_out.sum = 3
    /\ ref_out.c_out = 1

MismatchKinds == {"Sum mismatch", "C_out mismatch"}

\* C2: a vector passes the two helpers if and only if the observed sum equals
\* the expected sum and the observed carry-out equals the expected carry-out;
\* an observed sum that differs fails as a sum mismatch that carries the
\* observed and the expected value, an observed carry that differs (the sum
\* being right) as a carry mismatch that carries both.
C2_CheckerVerdict ==
    LET sumOk  == dut["sum"] = CurExpectedSum
        coutOk == dut["c_out"] = CurExpectedCOut
    IN  /\ pc = "check_c_out" => sumOk
        /\ pc = "sample" => sumOk /\ coutOk
        /\ (pc = "failed" /\ error.kind \in MismatchKinds) =>
              /\ ~(sumOk /\ coutOk)
              /\ ~sumOk =>
                    error = [kind |-> "Sum mismatch", got |-> dut["sum"],
                             expected |-> CurExpectedSum]
              /\ sumOk =>
                    error = [kind |-> "C_out mismatch", got |-> dut["c_out"],
                             expected |-> CurExpectedCOut]

\* the sum differs and the carry is right, as in observed (2, 1) for (3, 1)
C2_Witness ==
    /\ pc = "failed"
    /\ error.kind = "Sum mismatch"
    /\ error.got = dut["sum"]
    /\ error.got # error.expected
    /\ dut["c_out"] = CurExpectedCOut

\* the state a mismatch leaves: the vectors before the failing one are the
\* only ones sampled, nothing was reported, the inputs are still those of the
\* failing vector
C3_FailedState ==
    /\ pc = "failed"
    /\ coverage = {vectors[j] : j \in 1..(idx - 1)}
    /\ stdout = <<>>
    /\ dut[ports["a"]] = CurA
    /\ dut[ports["b"]] = CurB
    /\ dut[ports["c_in"]] = CurCIn

\* C3: a mismatch (sum or carry-out) puts the run in a terminal failure
\* state: the failing vector is not sampled, no later vector is driven and
\* the coverage report is never emitted (no step follows an error).
C3_MismatchIsTerminal ==
    [][ /\ error.kind = "none"
        /\ error'.kind \in MismatchKinds => C3_FailedState' ]_vars

\* the first of two vectors passed, the second failed its carry check
C3_Witness ==
    /\ pc = "failed"
    /\ error.kind = "C_out mismatch"
    /\ idx = 1
    /\ Len(vectors) = 2
    /\ coverage = {}
    /\ stdout = <<>>

\* the order of the positions of the coroutine
C4_Follows ==
    {<<"start", "gen_enter">>, <<"start", "failed">>,
     <<"gen_enter", "gen_loop">>, <<"gen_enter", "failed">>,
     <<"gen_loop", "gen_loop">>, <<"gen_loop", "for">>,
     <<"for", "drive_a">>, <<"for", "report">>,
     <<"drive_a", "drive_b">>, <<"drive_b", "drive_c_in">>,
     <<"drive_c_in", "wait">>, <<"wait", "check_sum">>,
     <<"check_sum", "check_c_out">>, <<"check_sum", "failed">>,
     <<"check_c_out", "sample">>, <<"check_c_out", "failed">>,
     <<"sample", "for">>, <<"report", "done">>}

\* C4: vectors are taken in the order the generator produced them, one at a
\* time; per vector the steps are drive a, b, c_in, wait, read and check,
\* sample; the next vector's inputs are driven only after the sample of the
\* current one.
C4_VectorOrder ==
    [][ /\ <<pc, pc'>> \in C4_Follows
        /\ idx' # idx => pc = "for" /\ idx' = idx + 1
        /\ pc \notin {"gen_enter", "gen_loop"} => vectors' = vectors
        /\ dut'[ports["a"]] # dut[ports["a"]] =>
              pc = "drive_a" /\ dut'[ports["a"]] = vectors[idx][1]
        /\ dut'[ports["b"]] # dut[ports["b"]] =>
              pc = "drive_b" /\ dut'[ports["b"]] = vectors[idx][2]
        /\ dut'[ports["c_in"]] # dut[ports["c_in"]] =>
              pc = "drive_c_in" /\ dut'[ports["c_in"]] = vectors[idx][3]
        /\ now' # now => pc = "wait"
        /\ coverage' # coverage =>
              pc = "sample" /\ coverage' = coverage \cup {vectors[idx]}
        /\ pc' = "drive_a" /\ idx' > 1 => vectors[idx] \in coverage ]_vars

\* the second vector is about to be driven, the first one was sampled
C4_Witness ==
    /\ pc = "drive_a"
    /\ idx = 2
    /\ vectors[1] # vectors[2]
    /\ coverage = {vectors[1]}
    /\ now = 1

\* C5: for a width N > 0 and a count k >= 0, generate_vectors(k) returns
\* exactly k vectors (exactly 1 when no count is given), each (a, b, c_in)
\* with 0 <= a, b <= 2^N - 1 and c_in in {0, 1}.
C5_GenerateVectors ==
    (N > 0 /\ pc \notin {"start", "gen_enter", "gen_loop"}) =>
        /\ num_arg.given => Len(vectors) = num_arg.value
        /\ ~num_arg.given => Len(vectors) = 1
        /\ \A i \in 1..Len(vectors) :
              /\ Len(vectors[i]) = 3
              /\ vectors[i][1] \in 0..(2 ^ N - 1)
              /\ vectors[i][2] \in 0..(2 ^ N - 1)
              /\ vectors[i][3] \in {0, 1}

\* generate_vectors(2) returned two different vectors, one at the top of the
\* operand range
C5_Witness ==
    /\ pc = "for"
    /\ idx = 0
    /\ N > 0
    /\ num_arg = [given |-> TRUE, value |-> 2]
    /\ Len(vectors) = 2
    /\ vectors[1] # vectors[2]
    /\ vectors[2][1] = 2 ^ N - 1

----------------------------------------------------------------------------
(* Claims about the coverage collector *)

\* the number of distinct vectors in a sequence of sample calls
DistinctIn(samples) == Cardinality({samples[i] : i \in 1..Len(samples)})

\* C6: sample is idempotent: sampling a vector already in the set leaves the
\* set (and its size) unchanged; after any sequence of sample calls on a
\* collector its set has as many elements as the sequence has distinct
\* vectors, and report() prints that number.
C6_SampleIdempotent ==
    [][ /\ (last'.op = "sample" /\ last'.v \in cov[last'.t]) =>
              cov'[last'.t] = cov[last'.t]
        /\ \A t \in Trackers :
              calls'[t].only_samples =>
                 Cardinality(cov'[t]) = DistinctIn(calls'[t].samples)
        /\ (last'.op = "report" /\ calls'[last'.t].only_samples) =>
              stdout'[Len(stdout')] = DistinctIn(calls'[last'.t].samples)
      ]_vars

\* the scenario: (1,2,0), (1,2,0), (3,4,1) sampled, report prints 2
C6_Witness ==
    /\ calls["A"].samples = << <<1, 2, 0>>, <<1, 2, 0>>, <<3, 4, 1>> >>
    /\ calls["A"].only_samples
    /\ last.op = "report" /\ last.t = "A"
    /\ stdout = <<2>>

\* C7: after a.merge(b) the set of a is the union of a's previous set and
\* b's set, b's set (and any third collector's) is unchanged, the result is
\* the set b.merge(a) would have given b, and merging a third set c after it
\* gives the same set as merging into a the result of b.merge(c).
C7_MergeIsUnion ==
    [][ last'.op = "merge" =>
          LET a == last'.t
              b == last'.u
          IN  /\ cov'[a] = cov[a] \cup cov[b]
              /\ \A c \in Trackers \ {a} : cov'[c] = cov[c]
              /\ cov'[a] = CovMerge(cov[b], cov[a])
              /\ \A c \in Trackers :
                    CovMerge(cov'[a], cov[c])
                       = CovMerge(cov[a], CovMerge(cov[b], cov[c]))
      ]_vars

\* the scenario: A = {(1,2,0)}, B = {(1,2,0), (3,4,1)}, A.merge(B) has 2
C7_Witness ==
    /\ last.op = "merge" /\ last.t = "A" /\ last.u = "B"
    /\ calls["A"].samples = << <<1, 2, 0>> >>
    /\ Cardinality(cov["B"]) = 2
    /\ cov["A"] = cov["B"]

\* C8: a load of a file written by save leaves the loading collector with
\* exactly the set that was saved, whatever it held before.
C8_SaveLoadRoundTrip ==
    (last.op = "load" /\ file_from.saved) =>
        /\ last.err = "none"
        /\ cov[last.t] = file_from.set

\* B had sampled (1,2,0); it loaded the file A saved with (7,12,0) alone
C8_Witness ==
    /\ last.op = "load" /\ last.t = "B"
    /\ file_from = [saved |-> TRUE, set |-> {<<7, 12, 0>>}]
    /\ calls["B"].samples = << <<1, 2, 0>> >>
    /\ cov["B"] = {<<7, 12, 0>>}

\* an element of a coverage file as the format wants it: an array of three
\* integers, the third 0 or 1
WellFormedElement(x) ==
    /\ x.k = "arr"
    /\ Len(x.items) = 3
    /\ \A j \in 1..3 : x.items[j].k = "int"
    /\ x.items[3].n \in {0, 1}

\* the file is a readable JSON array with an element that is not well formed
HasMalformedElement(f) ==
    /\ f.exists /\ ~f.denied
    /\ JsonLoads(f.text).ok
    /\ JsonLoads(f.text).val.k = "arr"
    /\ \E i \in 1..Len(JsonLoads(f.text).val.items) :
          ~WellFormedElement(JsonLoads(f.text).val.items[i])

\* C9: load of a file with an element that is not a 3-tuple of integers with
\* the carry bit in {0,1} fails with an error.
C9_LoadRejectsMalformed ==
    (last.op = "load" /\ HasMalformedElement(file)) => last.err # "none"

\* the tuples of the elements of a parsed array of arrays of integers
TuplesOf(items) ==
    {[j \in 1..Len(items[i].items) |-> items[i].items[j].n] :
        i \in 1..Len(items)}

\* C10: a load that fails (missing file, unreadable file, content that load
\* cannot take in) leaves every collector's set, and the file, as they were;
\* a load that does not fail holds every element of the file and nothing
\* else.
C10_LoadIsAllOrNothing ==
    [][ last'.op = "load" =>
          IF last'.err # "none"
          THEN cov' = cov /\ file' = file
          ELSE /\ cov'[last'.t] = TuplesOf(JsonLoads(file.text).val.items)
               /\ \A c \in Trackers \ {last'.t} : cov'[c] = cov[c]
      ]_vars

\* A held (1,2,0) and still does after a load of [[3, 4, 1], 5], whose second
\* element made tuple() raise
C10_Witness ==
    /\ last.op = "load" /\ last.t = "A"
    /\ last.err = "TypeError"
    /\ file.text = <<"[">> \o DumpTuple(<<3, 4, 1>>) \o <<",", " ", "5", "]">>
    /\ cov["A"] = {<<1, 2, 0>>}

\* the other ways a load fails
C10_Missing == last.op = "load" /\ last.err = "FileNotFoundError" /\ cov[last.t] # {}
C10_Denied  == last.op = "load" /\ last.err = "PermissionError" /\ cov[last.t] # {}
C10_BadJson == last.op = "load" /\ last.err = "JSONDecodeError" /\ cov[last.t] # {}

----------------------------------------------------------------------------
(* Claims about errors, port names, timing and the whole run *)

\* C11: a width N <= 0 (N = 0 included) given to the stimulus generator fails
\* fast: no vector is produced, none is driven onto the DUT, and the run does
\* not complete.
C11_NonPositiveWidthFailsFast ==
    N <= 0 =>
        /\ Len(vectors) = 0
        /\ idx = 0
        /\ pc # "done"

\* the mismatches the run reported when it ended
ReportedMismatches ==
    IF error.kind \in MismatchKinds THEN {error.kind} ELSE {}

\* a run ended by a mismatch on a vector whose observed sum and observed
\* carry-out both differ from the expected values
BothDiffer ==
    /\ pc = "failed"
    /\ error.kind \in MismatchKinds
    /\ dut["sum"] # CurExpectedSum
    /\ dut["c_out"] # CurExpectedCOut

\* C12 as stated: when the observed sum and the observed carry-out both
\* differ, both comparisons were evaluated and both mismatches are reported.
C12_BothMismatchesReported ==
    BothDiffer => ReportedMismatches = MismatchKinds

\* C12: the sum comparison is evaluated first and the carry-out comparison
\* only for a vector whose sum matched; when both differ, the sum mismatch
\* alone is reported, with the observed and the expected sum.
C12_FirstMismatchOnly ==
    /\ pc = "check_c_out" => dut["sum"] = CurExpectedSum
    /\ error.kind = "C_out mismatch" => dut["sum"] = CurExpectedSum
    /\ BothDiffer =>
          /\ ReportedMismatches = {"Sum mismatch"}
          /\ error.got = dut["sum"]
          /\ error.expected = CurExpectedSum

\* both outputs are wrong and the run stopped at the sum
C12_Witness ==
    /\ BothDiffer
    /\ error.kind = "Sum mismatch"
    /\ error.got # error.expected

\* C13: in a run of a width N > 0, every access of the harness to a DUT
\* port, the writes of a, b and c_in and the reads of sum and c_out, goes to
\* the signal name the port mapping gives for the role; under a mapping that
\* renames sum or c_out the checker reads the renamed signals (and so finds
\* them).
C13_AccessThroughMapping ==
    N > 0 =>
        /\ access.kind # "none" => access.name = ports[access.role]
        /\ error.kind # "AttributeError"

\* the positions between taking a vector and the end of its wait
BeforeSettle == {"drive_a", "drive_b", "drive_c_in", "wait"}

\* the number of waits that have elapsed at a position: one per vector taken,
\* the current one not counted before its wait
WaitsElapsed(p, i) == IF p \in BeforeSettle THEN i - 1 ELSE i

\* the three inputs of the DUT hold the current vector
InputsHoldCurrent ==
    /\ dut[ports["a"]] = CurA
    /\ dut[ports["b"]] = CurB
    /\ dut[ports["c_in"]] = CurCIn

\* C14: the settle wait is the only point where simulated time advances, it
\* happens exactly once per vector, after the three input writes of the
\* vector and before any read of its outputs: when time advances the three
\* inputs hold the current vector, and sum and c_out are read only when the
\* wait of the current vector has elapsed.
C14_SettleOncePerVector ==
    [][ /\ now' # now =>
              /\ pc = "wait"
              /\ now' = now + SettleNs
              /\ InputsHoldCurrent
        /\ pc = "wait" => now' # now
        /\ now = WaitsElapsed(pc, idx) * SettleNs
        /\ now' = WaitsElapsed(pc', idx') * SettleNs
        /\ access' # access /\ access'.kind = "read" =>
              /\ now = idx * SettleNs
              /\ InputsHoldCurrent ]_vars

\* the outputs of the second vector are about to be read, at 2 ns
C14_Witness ==
    /\ pc = "check_sum"
    /\ idx = 2
    /\ vectors[1] # vectors[2]
    /\ now = 2 * SettleNs
    /\ InputsHoldCurrent
    /\ access = [kind |-> "write", role |-> "c_in", name |-> ports["c_in"]]

\* the number of vectors that went through the whole loop body
Processed ==
    IF pc \in BeforeSettle \cup {"check_sum", "check_c_out", "sample", "failed"}
    THEN IF idx = 0 THEN 0 ELSE idx - 1
    ELSE idx

\* every vector of a width: (a, b, c_in) with a, b < 2^n
VectorSpace(n) ==
    {<<a, b, c>> : a \in 0..(Pow2(n) - 1), b \in 0..(Pow2(n) - 1), c \in 0..1}

\* the run was given a width and port names the harness can work with
RunnableConfig ==
    /\ N >= 0
    /\ ports["sum"] = "sum"
    /\ ports["c_out"] = "c_out"

\* what holds of the coverage set and of the report in every state of a run
C15_Safe ==
    /\ coverage = {vectors[j] : j \in 1..Processed}
    /\ Cardinality(coverage) <= Processed
    /\ Processed <= idx
    /\ N >= 0 =>
          /\ coverage \subseteq VectorSpace(N)
          /\ Cardinality(VectorSpace(N)) = 2 ^ (2 * N + 1)
          /\ Cardinality(coverage) <= 2 ^ (2 * N + 1)
    /\ stdout # <<>> => pc = "done"
    /\ pc = "done" =>
          /\ error = NoError
          /\ idx = Len(vectors)
          /\ stdout = <<Cardinality(coverage)>>
          /\ coverage = {vectors[j] : j \in 1..Len(vectors)}
    /\ (pc = "failed" /\ RunnableConfig) => error.kind \in MismatchKinds

\* what holds of every step that adds to the coverage set: the vector is the
\* current one, it is on the DUT inputs and both outputs equal the expected
\* values
C15_SampleStep ==
    coverage' # coverage =>
        /\ pc = "sample"
        /\ coverage' = coverage \cup {vectors[idx]}
        /\ InputsHoldCurrent
        /\ dut["sum"] = CurExpectedSum
        /\ dut["c_out"] = CurExpectedCOut

\* C15: in every state of a run the coverage set holds only vectors that
\* were generated, driven and passed both checks, so it has at most as many
\* elements as vectors were processed and at most 2^(2N+1); a run ends, at
\* Done unless a check failed, the report is printed exactly once, after the
\* last vector, and the coverage set is then the set of all generated
\* vectors.
C15_CoverageAndCompletion ==
    /\ []C15_Safe
    /\ [][C15_SampleStep]_vars
    /\ <>(pc \in {"done", "failed"})

\* a run of two different vectors ended at Done with both covered and the
\* count printed once
C15_Witness ==
    /\ pc = "done"
    /\ Len(vectors) = 2
    /\ vectors[1] # vectors[2]
    /\ coverage = {vectors[1], vectors[2]}
    /\ stdout = <<2>>

\* at width 0 the two vectors of the space are covered: the bound is reached
C15_FullSpace ==
    /\ N = 0
    /\ pc = "done"
    /\ Cardinality(coverage) = 2 ^ (2 * N + 1)

====
